---- MODULE Spec2Model ----
(***************************************************************************)
(* The Queue persistence and mutation engine: QueueSaver, DefaultQueueStore *)
(* and Queue, as a state machine.                                           *)
(*                                                                          *)
(* Every method of Queue is an async function: it reads the store when it   *)
(* is called (QueueSaver.get runs up to its first await), resumes later to  *)
(* build `stored`, mutate it, notify the watcher and enter _save, and the   *)
(* store write and the return to the caller are later steps again.          *)
(* Spec is one caller that awaits each call before the next; RaceSpec is    *)
(* two callers of the same Queue object whose steps interleave freely.      *)
(*                                                                          *)
(* DefaultQueueStore keeps the very objects it is given (stringify and      *)
(* parse return their argument), so the arrays of a loaded document are the *)
(* arrays held by the store: an in-place mutation of stored.tracks is seen  *)
(* by the store before any set.  An array is therefore either the store's   *)
(* ("S") or private to the one call that holds it ("P"); with two callers   *)
(* no other sharing can arise.                                              *)
(*                                                                          *)
(* Indices are JavaScript's (0-based); sequences are TLA+'s (1-based).      *)
(***************************************************************************)
EXTENDS Integers, Sequences, FiniteSets, TLC

VARIABLES
    cfg,        \* ManagerQueueOptions.maxPreviousTracks as given: [given, n]
    watcher,    \* names of the QueueChangesWatcher callbacks that are functions
    store,      \* DefaultQueueStore.data, the entry of this guild
    others,     \* DefaultQueueStore.data, the entries of the other guilds
    current,    \* Queue.current
    proc,       \* the call each caller has in flight
    calls       \* number of calls made so far

vars == <<cfg, watcher, store, others, current, proc, calls>>

----------------------------------------------------------------------------
(* Bounds of the model *)

MaxTracks == 3
MaxCalls == 2
MaxCapCfg == 1

Procs == {1, 2}

(* Program constants *)

DefaultMaxPreviousTracks == 25
MinDuration == 10000

----------------------------------------------------------------------------
(* Tracks.  A track is named; Info gives the fields the code reads. *)

None == "none"

Dur(ms) == [tag |-> "num", ms |-> ms]
NoDur == [tag |-> "undefined", ms |-> 0]
NaNDur == [tag |-> "NaN", ms |-> 0]

Trk(kind, enc, id, uri, title, isrc, art, dur) ==
    [kind |-> kind, encoded |-> enc, identifier |-> id, uri |-> uri,
     title |-> title, isrc |-> isrc, artworkUrl |-> art, duration |-> dur]

Info ==
    [null |-> Trk("null", None, None, None, None, None, None, NoDur),
     tA |-> Trk("track", "eA", "iA", "uA", "T1", None, None, Dur(200000)),
     tB |-> Trk("track", "eB", "iB", "uB", "T1", None, None, Dur(10000)),
     tC |-> Trk("track", "eC", "iC", "uC", "T3", None, "art", Dur(9999)),
     tN |-> Trk("track", "eN", "iN", "uN", "T5", None, None, NaNDur),
     tU |-> Trk("track", "eU", "iU", "uU", "T6", None, None, NoDur),
     uA |-> Trk("unresolved", None, None, None, "T4", "isrc1", None, NoDur),
     uB |-> Trk("unresolved", None, None, None, "T3", None, "art", Dur(5000)),
     junk |-> Trk("other", None, None, None, None, None, None, NoDur)]

Null == "null"

(* ManagerUtils.isTrack / isUnresolvedTrack: the capability tests that tell *)
(* a resolved Track from an UnresolvedTrack.                                *)
isTrack(t) == Info[t].kind = "track"

isUnresolvedTrack(t) == Info[t].kind = "unresolved"

(* a test that forgets the missing and the NaN duration *)
TooShort(d) == d.tag = "num" /\ d.ms < MinDuration

(* !duration || isNaN(duration) || duration < 10000 *)
BadDuration(d) == d.tag # "num" \/ d.ms = 0 \/ d.ms < MinDuration

isValid(t) == ~(isTrack(t) /\ BadDuration(Info[t].duration))

----------------------------------------------------------------------------
(* JavaScript arrays *)

Min(a, b) == IF a < b THEN a ELSE b

Max(a, b) == IF a > b THEN a ELSE b

InRange(s, i) == i >= 0 /\ i < Len(s)

At(s, i) == s[i + 1]

(* arr[i] is truthy: every element is an object, so it is there or not *)
Present(s, i) == InRange(s, i)

RECURSIVE Flat(_)
(* Array.prototype.flat over an array of arrays *)
Flat(groups) ==
    IF groups = <<>> THEN <<>> ELSE Head(groups) \o Flat(Tail(groups))

SpliceStart(s, start) ==
    IF start < 0 THEN Max(Len(s) + start, 0) ELSE Min(start, Len(s))

SpliceCount(s, start, del) ==
    Max(0, Min(del, Len(s) - SpliceStart(s, start)))

(* Array.prototype.splice(start, del, ...ins): the items it removes ... *)
SpliceRemoved(s, start, del) ==
    SubSeq(s, SpliceStart(s, start) + 1,
           SpliceStart(s, start) + SpliceCount(s, start, del))

(* ... and the array it leaves *)
SpliceRest(s, start, del, ins) ==
    SubSeq(s, 1, SpliceStart(s, start)) \o ins
    \o SubSeq(s, SpliceStart(s, start) + SpliceCount(s, start, del) + 1, Len(s))

Unshift(s, x) == <<x>> \o s

(* an exchange that forgets the second assignment *)
Overwrite(s, i, j) == [s EXCEPT ![i + 1] = s[j + 1]]

Swap(s, i, j) == [s EXCEPT ![i + 1] = s[j + 1], ![j + 1] = s[i + 1]]

(* Array.prototype.findIndex, given the set of indices whose element      *)
(* satisfies the predicate: the least of them, or -1                       *)
FirstIndex(S) ==
    IF S = {} THEN -1 ELSE CHOOSE k \in S : \A m \in S : k <= m

----------------------------------------------------------------------------
(* Construction *)

(* ManagerQueueOptions.maxPreviousTracks: left out, or a number *)
CapConfigs ==
    {[given |-> FALSE, n |-> 0]} \cup {[given |-> TRUE, n |-> n] : n \in 0..MaxCapCfg}

(* QueueSaver.constructor: options?.maxPreviousTracks || 25 *)
QueueSaverOptions(c) ==
    IF c.given /\ c.n # 0 THEN c.n ELSE DefaultMaxPreviousTracks

(* Queue.constructor: this.QueueSaver?.options?.maxPreviousTracks ?? 25 *)
maxPreviousTracks == QueueSaverOptions(cfg)

(* The watcher: which callbacks are functions, and whether they throw *)
Callbacks == {"tracksAdd", "tracksRemoved", "shuffled"}

Watchers ==
    {[fns |-> {}, throws |-> FALSE],
     [fns |-> Callbacks, throws |-> FALSE],
     [fns |-> Callbacks, throws |-> TRUE]}

(* typeof this.queueChanges?.f === "function" *)
Has(f) == f \in watcher.fns

(* data.current of the constructor call *)
InitCurrents == {Null, "tA", "uA"}

(* Queue.constructor: this.current = isTrack(data.current) ? data.current : null *)
Construct(dataCurrent) == IF isTrack(dataCurrent) THEN dataCurrent ELSE Null

----------------------------------------------------------------------------
(* Documents, snapshots, results *)

(* DefaultQueueStore.get of an id that was never set: undefined *)
NoEntry ==
    [exists |-> FALSE, hasP |-> FALSE, hasT |-> FALSE,
     current |-> Null, previous |-> <<>>, tracks |-> <<>>]

Doc(c, prev, trks) ==
    [exists |-> TRUE, hasP |-> TRUE, hasT |-> TRUE,
     current |-> c, previous |-> prev, tracks |-> trks]

(* hasP, hasT: Array.isArray(data?.previous), Array.isArray(data?.tracks) *)
(* An entry some other writer of the store left without one of its lists, *)
(* or without both                                                        *)
PartialEntries ==
    {[NoEntry EXCEPT !.exists = TRUE, !.current = "uA"],
     [Doc(Null, <<>>, <<"tB", "tC">>) EXCEPT !.hasP = FALSE],
     [Doc("tB", <<"tA">>, <<>>) EXCEPT !.hasT = FALSE]}

StoredQueue(c, prev, trks) == [current |-> c, previous |-> prev, tracks |-> trks]

(* Queue._snapshot: a copy of the three fields *)
Snapshot(stored) == StoredQueue(stored.current, stored.previous, stored.tracks)

(* alias: the array returned is an array of the loaded document itself *)
Res(kind, n, items) ==
    [kind |-> kind, n |-> n, items |-> items,
     doc |-> StoredQueue(Null, <<>>, <<>>), alias |-> FALSE]

NoResult == Res("none", 0, <<>>)

ResNull == Res("null", 0, <<>>)

ResUndefined == Res("undefined", 0, <<>>)

ResBool(b) == Res(IF b THEN "true" ELSE "false", 0, <<>>)

ResNumber(n) == Res("number", n, <<>>)

ResTrack(t) == Res("track", 0, <<t>>)

ResList(l) == Res("list", 0, l)

(* return stored.tracks: the loaded array, no copy *)
ResArray(l) == [ResList(l) EXCEPT !.alias = TRUE]

ResRemoved(l) == Res("removed", 0, l)

ResDoc(sq) == [Res("doc", 0, <<>>) EXCEPT !.doc = sq]

(* an exception reaches the caller *)
ResThrew == Res("threw", 0, <<>>)

(* stored.tracks.length, read after the save *)
ResLength == Res("length", 0, <<>>)

(* The position argument of a notification: a number or an array of numbers *)
PosNumber(n) == [list |-> FALSE, n |-> n, items |-> <<>>]

PosList(l) == [list |-> TRUE, n |-> 0, items |-> l]

Note(event, trks, pos, old, new) ==
    [event |-> event, tracks |-> trks, position |-> pos, old |-> old, new |-> new]

(* One entry of remove's array argument: a number or a track *)
QNum(n) == [num |-> TRUE, n |-> n, t |-> Null]

QTrack(t) == [num |-> FALSE, n |-> 0, t |-> t]

(* Arguments of a call; a method reads the fields it has:                  *)
(*   t        a track                     list   an array of tracks        *)
(*   groups   TrackOrTracks, as an array of arrays; given: it was passed    *)
(*   i, j     numbers; hasI: the optional index was passed                  *)
(*   form, q  remove's argument: "index" (i), "array" (q) or "track" (t)    *)
(*   flag     dontSyncCurrent                                               *)
NoArg ==
    [t |-> Null, list |-> <<>>, groups |-> <<>>, given |-> FALSE,
     i |-> 0, j |-> 0, hasI |-> FALSE, form |-> "none", q |-> <<>>,
     flag |-> TRUE]

(* the JSON the Queue object of a call was constructed from, for the call *)
(* that follows the construction at once                                  *)
NoJSON == [given |-> FALSE, doc |-> StoredQueue(Null, <<>>, <<>>)]

(* the addToPrevious call that returned just before this call was made: *)
(* its track and the previous list it loaded                              *)
NoPrior == [given |-> FALSE, t |-> Null, previous |-> <<>>]

(* the entry of the guild as it was when the last call of this caller    *)
(* returned                                                               *)
NotLeft == [given |-> FALSE, doc |-> NoEntry]

Left(doc) == [given |-> TRUE, doc |-> doc]

Idle ==
    [pc |-> "idle", op |-> "none", a |-> NoArg,
     tref |-> "P", pref |-> "P", tracks |-> <<>>, previous |-> <<>>,
     data |-> NoEntry, current |-> Null,
     loadedT |-> <<>>, loadedP |-> <<>>,
     notes |-> <<>>, result |-> NoResult,
     saved |-> FALSE, wrote |-> StoredQueue(Null, <<>>, <<>>),
     via |-> "none", gets |-> 0, from |-> NoJSON, prior |-> NoPrior,
     left |-> NotLeft, nth |-> 0]

(* what the store holds for another guild *)
OtherEntries == Doc("tA", <<"tB">>, <<"uA">>)

Init ==
    /\ cfg \in CapConfigs
    /\ watcher \in Watchers
    /\ store = NoEntry
    /\ others = OtherEntries
    /\ \E d \in InitCurrents : current = Construct(d)
    /\ proc = [p \in Procs |-> Idle]
    /\ calls = 0

(* A Queue constructed, with no maxPreviousTracks option, over a store    *)
(* whose entry of the guild is partial                                    *)
InitPartial ==
    /\ cfg = [given |-> FALSE, n |-> 0]
    /\ watcher \in Watchers
    /\ store \in PartialEntries
    /\ others = OtherEntries
    /\ \E d \in InitCurrents : current = Construct(d)
    /\ proc = [p \in Procs |-> Idle]
    /\ calls = 0

----------------------------------------------------------------------------
(* The steps of a call *)

InFlight(q) == proc[q].pc \in {"loaded", "saving", "saved"}

(* The arrays a call holds: the store's own, or its private ones *)
TracksOf(p) == IF proc[p].tref = "S" THEN store.tracks ELSE proc[p].tracks

PreviousOf(p) == IF proc[p].pref = "S" THEN store.previous ELSE proc[p].previous

(* Queue._load after its await: current from memory, the lists from the    *)
(* document read, [] for a list that is no array                           *)
Load(p) == StoredQueue(current, PreviousOf(p), TracksOf(p))

(* A cap that evicts from the head: it keeps the oldest entries *)
CapPreviousHead(prev) ==
    IF Len(prev) > maxPreviousTracks
    THEN SubSeq(prev, Len(prev) - maxPreviousTracks + 1, Len(prev))
    ELSE prev

(* Queue._save before its await: stored.previous.splice(max, length) *)
CapPrevious(prev) ==
    IF Len(prev) > maxPreviousTracks
    THEN SpliceRest(prev, maxPreviousTracks, Len(prev), <<>>)
    ELSE prev

(* What a method body does between its load and its save or return:       *)
(* the arrays it leaves, whether stored.tracks is a new array, whether it *)
(* goes on to _save, its result ("length": stored.tracks.length, read     *)
(* after the save), and the notifications it made.                        *)
Out(trks, newT, prev, save, result, notes) ==
    [tracks |-> trks, newT |-> newT, previous |-> prev, save |-> save,
     result |-> result, notes |-> notes]

(* The other caller loses the store's array f when the store drops it *)
Detach(q, dropT, dropP) ==
    [proc[q] EXCEPT
        !.tref = IF dropT THEN "P" ELSE @,
        !.tracks = IF dropT /\ proc[q].tref = "S" THEN store.tracks ELSE @,
        !.pref = IF dropP THEN "P" ELSE @,
        !.previous = IF dropP /\ proc[q].pref = "S" THEN store.previous ELSE @]

(* A load that finds no list in the entry it reads *)
EnteredEmpty(op, a) ==
    [Idle EXCEPT !.pc = "loaded", !.op = op, !.a = a,
                 !.data = store, !.gets = 1]

(* A method runs up to the await in QueueSaver.get, after                 *)
(* DefaultQueueStore.get has read the entry.                              *)
(* nth: the call is the nth made on the guild                             *)
Entered(op, a) ==
    [Idle EXCEPT !.pc = "loaded", !.op = op, !.a = a,
                 !.data = store, !.gets = 1, !.nth = calls + 1,
                 !.tref = IF store.hasT THEN "S" ELSE "P",
                 !.pref = IF store.hasP THEN "S" ELSE "P"]

Invoke(p, op, a) ==
    /\ proc[p].pc = "idle"
    /\ calls < MaxCalls
    /\ calls' = calls + 1
    /\ proc' = [proc EXCEPT ![p] =
            [Entered(op, a) EXCEPT !.left = proc[p].left]]
    /\ UNCHANGED <<others, cfg, watcher, store, current>>

(* The method resumes with the loaded document and runs to its return or  *)
(* to the await in QueueSaver.set.                                        *)
Settle(p, out) ==
    LET me == proc[p]
        stored == Load(p)
        prev1 == IF out.save THEN CapPrevious(out.previous) ELSE out.previous
        tShared == me.tref = "S" /\ ~out.newT
        pShared == me.pref = "S"
        live == out.save
    IN  /\ store' = [store EXCEPT
                !.tracks = IF tShared THEN out.tracks ELSE @,
                !.previous = IF pShared THEN prev1 ELSE @]
        /\ proc' = [proc EXCEPT ![p] =
                [me EXCEPT
                    !.pc = IF out.save THEN "saving" ELSE "done",
                    !.tref = IF live /\ tShared THEN "S" ELSE "P",
                    !.pref = IF live /\ pShared THEN "S" ELSE "P",
                    !.tracks = IF live /\ ~tShared THEN out.tracks ELSE <<>>,
                    !.previous = IF live /\ ~pShared THEN prev1 ELSE <<>>,
                    !.current = stored.current,
                    !.loadedT = stored.tracks,
                    !.loadedP = stored.previous,
                    !.notes = out.notes,
                    !.result = out.result]]
        /\ UNCHANGED <<others, cfg, watcher, current, calls>>

(* A set that merges the tracks already stored with those of the call *)
QueueSaver_merge(p) ==
    /\ proc[p].pc = "saving"
    /\ LET kept == IF proc[p].tref = "P" THEN store.tracks ELSE <<>>
           doc == Doc(proc[p].current, PreviousOf(p), kept \o TracksOf(p))
       IN  /\ store' = doc
           /\ proc' = [q \in Procs |->
                  IF q = p
                  THEN [proc[p] EXCEPT
                          !.pc = "saved", !.tref = "S", !.pref = "S",
                          !.tracks = <<>>, !.previous = <<>>,
                          !.saved = TRUE,
                          !.wrote = Snapshot(doc)]
                  ELSE IF InFlight(q)
                       THEN Detach(q, proc[p].tref = "P", proc[p].pref = "P")
                       ELSE proc[q]]
    /\ UNCHANGED <<others, cfg, watcher, current, calls>>

(* A set that keeps the current of the entry it replaces *)
QueueSaver_setLists(p) ==
    /\ proc[p].pc = "saving"
    /\ LET doc == Doc(IF store.exists THEN store.current ELSE proc[p].current,
                      PreviousOf(p), TracksOf(p))
       IN  /\ store' = doc
           /\ proc' = [q \in Procs |->
                  IF q = p
                  THEN [proc[p] EXCEPT
                          !.pc = "saved", !.tref = "S", !.pref = "S",
                          !.tracks = <<>>, !.previous = <<>>,
                          !.saved = TRUE,
                          !.wrote = Snapshot(doc)]
                  ELSE IF InFlight(q)
                       THEN Detach(q, proc[p].tref = "P", proc[p].pref = "P")
                       ELSE proc[q]]
    /\ UNCHANGED <<others, cfg, watcher, current, calls>>

(* QueueSaver.set after its await: DefaultQueueStore.set stores the very  *)
(* object, so the store's arrays become the arrays of this call.          *)
QueueSaver_set(p) ==
    /\ proc[p].pc = "saving"
    /\ LET doc == Doc(proc[p].current, PreviousOf(p), TracksOf(p))
       IN  /\ store' = doc
           /\ proc' = [q \in Procs |->
                  IF q = p
                  THEN [proc[p] EXCEPT
                          !.pc = "saved", !.tref = "S", !.pref = "S",
                          !.tracks = <<>>, !.previous = <<>>,
                          !.saved = TRUE,
                          !.wrote = Snapshot(doc)]
                  ELSE IF InFlight(q)
                       THEN Detach(q, proc[p].tref = "P", proc[p].pref = "P")
                       ELSE proc[q]]
    /\ UNCHANGED <<others, cfg, watcher, current, calls>>

(* The method returns to its caller *)
Return(p) ==
    /\ proc[p].pc = "saved"
    /\ proc' = [proc EXCEPT ![p] =
            [@ EXCEPT
                !.pc = "done", !.tref = "P", !.pref = "P",
                !.result = IF @ = ResLength
                           THEN ResNumber(Len(TracksOf(p))) ELSE @]]
    /\ UNCHANGED <<others, cfg, watcher, store, current, calls>>

(* The caller has the result and is free to call again *)
Await(p) ==
    /\ proc[p].pc = "done"
    /\ proc' = [proc EXCEPT ![p] = [Idle EXCEPT !.left = Left(store)]]
    /\ UNCHANGED <<others, cfg, watcher, store, current, calls>>

(* A new Queue constructed without the JSON *)
ReconstructEmpty(p) ==
    /\ proc[p].pc = "done"
    /\ proc[p].op = "toJSON"
    /\ calls < MaxCalls
    /\ calls' = calls + 1
    /\ current' = Construct(Null)
    /\ proc' = [proc EXCEPT ![p] =
            [Entered("toJSON", NoArg) EXCEPT
                !.from = [given |-> TRUE, doc |-> proc[p].result.doc]]]
    /\ UNCHANGED <<others, cfg, watcher, store>>

(* new Queue(guildId, json, QueueSaver, options).utils.toJSON() with the  *)
(* JSON that utils.toJSON has just returned: same store, same options,    *)
(* up to the await in QueueSaver.get                                      *)
Reconstruct(p) ==
    /\ proc[p].pc = "done"
    /\ proc[p].op = "toJSON"
    /\ calls < MaxCalls
    /\ calls' = calls + 1
    /\ current' = Construct(proc[p].result.doc.current)
    /\ proc' = [proc EXCEPT ![p] =
            [Entered("toJSON", NoArg) EXCEPT
                !.from = [given |-> TRUE, doc |-> proc[p].result.doc],
                !.left = Left(store)]]
    /\ UNCHANGED <<others, cfg, watcher, store>>

(* shiftPrevious() called as soon as addToPrevious(t) has returned, up to *)
(* the await in QueueSaver.get                                            *)
ThenShiftPrevious(p) ==
    /\ proc[p].pc = "done"
    /\ proc[p].op = "addToPrevious"
    /\ calls < MaxCalls
    /\ calls' = calls + 1
    /\ proc' = [proc EXCEPT ![p] =
            [Entered("shiftPrevious", NoArg) EXCEPT
                !.prior = [given |-> TRUE, t |-> proc[p].a.t,
                           previous |-> proc[p].loadedP],
                !.left = Left(store)]]
    /\ UNCHANGED <<others, cfg, watcher, store, current>>

Resumes(p, op) == proc[p].pc = "loaded" /\ proc[p].op = op

----------------------------------------------------------------------------
(* The methods of Queue: reads *)

(* Array.prototype.slice(start, end) *)
Slice(s, start, end) ==
    SubSeq(s, SpliceStart(s, start) + 1, SpliceStart(s, end))

(* A method that only reads: it returns r and leaves the arrays alone *)
Reads(stored, r) ==
    Out(stored.tracks, FALSE, stored.previous, FALSE, r, <<>>)

(* A method that changes stored.tracks in place and saves *)
Saves(stored, trks, r) ==
    Out(trks, FALSE, stored.previous, TRUE, r, <<>>)

getTracks(p) ==
    /\ Resumes(p, "getTracks")
    /\ Settle(p, Reads(Load(p), ResArray(Load(p).tracks)))

getTrackCount(p) ==
    /\ Resumes(p, "getTrackCount")
    /\ Settle(p, Reads(Load(p), ResNumber(Len(Load(p).tracks))))

(* stored.tracks[index] *)
ElementAt(s, i) == IF InRange(s, i) THEN ResTrack(At(s, i)) ELSE ResUndefined

getTrack(p) ==
    /\ Resumes(p, "getTrack")
    /\ Settle(p, Reads(Load(p), ElementAt(Load(p).tracks, proc[p].a.i)))

(* A slice taken with splice, which removes what it returns *)
getTracksSplice(p) ==
    /\ Resumes(p, "getTracksSlice")
    /\ LET stored == Load(p)
           end == IF proc[p].a.hasI THEN proc[p].a.j ELSE Len(stored.tracks)
           taken == Slice(stored.tracks, proc[p].a.i, end)
       IN  Settle(p, Out(SpliceRest(stored.tracks, proc[p].a.i, Len(taken), <<>>),
                         FALSE, stored.previous, FALSE, ResList(taken), <<>>))

getTracksSlice(p) ==
    /\ Resumes(p, "getTracksSlice")
    /\ LET stored == Load(p)
           end == IF proc[p].a.hasI THEN proc[p].a.j ELSE Len(stored.tracks)
       IN  Settle(p, Reads(stored, ResList(Slice(stored.tracks, proc[p].a.i, end))))

getPrevious(p) ==
    /\ Resumes(p, "getPrevious")
    /\ Settle(p, Reads(Load(p), ResArray(Load(p).previous)))

getPreviousTrack(p) ==
    /\ Resumes(p, "getPreviousTrack")
    /\ Settle(p, Reads(Load(p), ElementAt(Load(p).previous, proc[p].a.i)))

getPreviousCount(p) ==
    /\ Resumes(p, "getPreviousCount")
    /\ Settle(p, Reads(Load(p), ResNumber(Len(Load(p).previous))))

(* the predicate holds of the tracks named in a.list *)
findTrackIndex(p) ==
    /\ Resumes(p, "findTrackIndex")
    /\ LET stored == Load(p)
           hits == {k \in 0..(Len(stored.tracks) - 1) :
                      \E m \in 1..Len(proc[p].a.list) :
                          proc[p].a.list[m] = At(stored.tracks, k)}
       IN  Settle(p, Reads(stored, ResNumber(FirstIndex(hits))))

----------------------------------------------------------------------------
(* The methods of Queue: the list primitives *)

clearTracks(p) ==
    /\ Resumes(p, "clearTracks")
    /\ Settle(p, Out(<<>>, TRUE, Load(p).previous, TRUE, ResUndefined, <<>>))

unshiftTrack(p) ==
    /\ Resumes(p, "unshiftTrack")
    /\ Settle(p, Saves(Load(p), Unshift(Load(p).tracks, proc[p].a.t), ResLength))

shiftTrack(p) ==
    /\ Resumes(p, "shiftTrack")
    /\ LET stored == Load(p)
       IN  IF stored.tracks = <<>>
           THEN Settle(p, Reads(stored, ResUndefined))
           ELSE Settle(p, Saves(stored, Tail(stored.tracks),
                                ResTrack(Head(stored.tracks))))

pushTrack(p) ==
    /\ Resumes(p, "pushTrack")
    /\ Settle(p, Saves(Load(p), Append(Load(p).tracks, proc[p].a.t), ResLength))

setTracks(p) ==
    /\ Resumes(p, "setTracks")
    /\ Settle(p, Out(proc[p].a.list, TRUE, Load(p).previous, TRUE,
                     ResUndefined, <<>>))

(* a move that exchanges the two tracks when both indices are in the list *)
moveTrackSwap(p) ==
    /\ Resumes(p, "moveTrack")
    /\ LET stored == Load(p)
           from == proc[p].a.i
           to == proc[p].a.j
           without == SpliceRest(stored.tracks, from, 1, <<>>)
       IN  IF from < 0 \/ from >= Len(stored.tracks)
           THEN Settle(p, Reads(stored, ResUndefined))
           ELSE Settle(p, Saves(stored,
                    IF InRange(stored.tracks, to)
                    THEN Swap(stored.tracks, from, to)
                    ELSE SpliceRest(without, to, 0, <<At(stored.tracks, from)>>),
                    ResUndefined))

moveTrack(p) ==
    /\ Resumes(p, "moveTrack")
    /\ LET stored == Load(p)
           from == proc[p].a.i
           to == proc[p].a.j
           without == SpliceRest(stored.tracks, from, 1, <<>>)
       IN  IF from < 0 \/ from >= Len(stored.tracks)
           THEN Settle(p, Reads(stored, ResUndefined))
           ELSE Settle(p, Saves(stored,
                    SpliceRest(without, to, 0, <<At(stored.tracks, from)>>),
                    ResUndefined))

addToPrevious(p) ==
    /\ Resumes(p, "addToPrevious")
    /\ LET stored == Load(p)
       IN  Settle(p, Out(stored.tracks, FALSE,
                         Unshift(stored.previous, proc[p].a.t), TRUE,
                         ResUndefined, <<>>))

(* a bounds check that lets index = length through: the assignment appends *)
replaceTrackPastEnd(p) ==
    /\ Resumes(p, "replaceTrack")
    /\ LET stored == Load(p)
           index == proc[p].a.i
       IN  IF index < 0 \/ index > Len(stored.tracks)
           THEN Settle(p, Reads(stored, ResBool(FALSE)))
           ELSE Settle(p, Saves(stored,
                    IF index = Len(stored.tracks)
                    THEN Append(stored.tracks, proc[p].a.t)
                    ELSE [stored.tracks EXCEPT ![index + 1] = proc[p].a.t],
                    ResBool(TRUE)))

replaceTrack(p) ==
    /\ Resumes(p, "replaceTrack")
    /\ LET stored == Load(p)
           index == proc[p].a.i
       IN  IF index < 0 \/ index >= Len(stored.tracks)
           THEN Settle(p, Reads(stored, ResBool(FALSE)))
           ELSE Settle(p, Saves(stored,
                    [stored.tracks EXCEPT ![index + 1] = proc[p].a.t],
                    ResBool(TRUE)))

swapTracks(p) ==
    /\ Resumes(p, "swapTracks")
    /\ LET stored == Load(p)
           i == proc[p].a.i
           j == proc[p].a.j
           n == Len(stored.tracks)
       IN  IF i < 0 \/ i >= n \/ j < 0 \/ j >= n
           THEN Settle(p, Reads(stored, ResBool(FALSE)))
           ELSE Settle(p, Saves(stored, Swap(stored.tracks, i, j), ResBool(TRUE)))

(* a shiftPrevious that takes the last entry *)
popPrevious(p) ==
    /\ Resumes(p, "shiftPrevious")
    /\ LET stored == Load(p)
           n == Len(stored.previous)
       IN  IF stored.previous = <<>>
           THEN Settle(p, Reads(stored, ResNull))
           ELSE Settle(p, Out(stored.tracks, FALSE,
                             SubSeq(stored.previous, 1, n - 1), TRUE,
                             ResTrack(stored.previous[n]), <<>>))

(* Shifts the previous array *)
shiftPrevious(p) ==
    /\ Resumes(p, "shiftPrevious")
    /\ LET stored == Load(p)
       IN  IF stored.previous = <<>>
           THEN Settle(p, Reads(stored, ResNull))
           ELSE Settle(p, Out(stored.tracks, FALSE, Tail(stored.previous), TRUE,
                             ResTrack(Head(stored.previous)), <<>>))

----------------------------------------------------------------------------
(* Queue.utils *)

save(p) ==
    /\ Resumes(p, "save")
    /\ Settle(p, Saves(Load(p), Load(p).tracks, ResUndefined))

(* A sync that takes the remote current whenever it is a Track *)
syncOverwrites(p) ==
    /\ Resumes(p, "sync")
    /\ LET me == proc[p]
           adopt == ~me.a.flag /\ isTrack(me.data.current)
       IN  /\ current' = IF me.data.exists /\ adopt THEN me.data.current ELSE current
           /\ proc' = [proc EXCEPT ![p] =
                  [me EXCEPT !.pc = "done", !.tref = "P", !.pref = "P",
                             !.current = current,
                             !.result = IF me.data.exists THEN ResUndefined
                                        ELSE ResThrew]]
    /\ UNCHANGED <<others, cfg, watcher, store, calls>>

(* utils.sync reads the entry itself, without _load *)
sync(p) ==
    /\ Resumes(p, "sync")
    /\ LET me == proc[p]
           adopt == ~me.a.flag /\ current = Null /\ isTrack(me.data.current)
       IN  /\ current' = IF me.data.exists /\ adopt THEN me.data.current ELSE current
           /\ proc' = [proc EXCEPT ![p] =
                  [me EXCEPT !.pc = "done", !.tref = "P", !.pref = "P",
                             !.current = current,
                             !.result = IF me.data.exists THEN ResUndefined
                                        ELSE ResThrew]]
    /\ UNCHANGED <<others, cfg, watcher, store, calls>>

(* A destroy that deletes the entry of another guild *)
destroyOther(p) ==
    /\ proc[p].pc = "idle"
    /\ calls < MaxCalls
    /\ calls' = calls + 1
    /\ others' = NoEntry
    /\ proc' = [proc EXCEPT ![p] =
            [Idle EXCEPT !.pc = "saved", !.op = "destroy",
                         !.data = store,
                         !.result = ResBool(others.exists)]]
    /\ UNCHANGED <<store, cfg, watcher, current>>

(* utils.destroy: QueueSaver.delete has no await before                   *)
(* DefaultQueueStore.delete, so the entry goes as the method is called    *)
destroy(p) ==
    /\ proc[p].pc = "idle"
    /\ calls < MaxCalls
    /\ calls' = calls + 1
    /\ store' = NoEntry
    /\ proc' = [q \in Procs |->
            IF q = p
            THEN [Idle EXCEPT !.pc = "saved", !.op = "destroy",
                              !.data = store,
                              !.result = ResBool(store.exists),
                              !.left = proc[p].left, !.nth = calls + 1]
            ELSE IF InFlight(q) THEN Detach(q, TRUE, TRUE) ELSE proc[q]]
    /\ UNCHANGED <<others, cfg, watcher, current>>

toJSON(p) ==
    /\ Resumes(p, "toJSON")
    /\ LET stored == Load(p)
           prev == CapPrevious(stored.previous)
       IN  Settle(p, Out(stored.tracks, FALSE, prev, FALSE,
                         ResDoc(StoredQueue(stored.current, prev, stored.tracks)),
                         <<>>))

(* cur.info?.duration || 0 *)
DurationOrZero(t) ==
    IF Info[t].duration.tag = "num" THEN Info[t].duration.ms ELSE 0

RECURSIVE SumDurations(_)
SumDurations(s) ==
    IF s = <<>> THEN 0 ELSE DurationOrZero(Head(s)) + SumDurations(Tail(s))

totalDuration(p) ==
    /\ Resumes(p, "totalDuration")
    /\ LET stored == Load(p)
       IN  Settle(p, Reads(stored,
                ResNumber(SumDurations(stored.tracks) + DurationOrZero(current))))

----------------------------------------------------------------------------
(* shuffle *)

(* The draws of the Fisher-Yates loop on n tracks: j for each i = n-1 .. 1, *)
(* j = Math.floor(Math.random() * (i + 1))                                  *)
Draws(n) == {js \in [1..(n - 1) -> 0..(n - 1)] : \A i \in 1..(n - 1) : js[i] <= i}

RECURSIVE FisherYates(_, _, _)
(* for (let i = length - 1; i > 0; i--) swap i and js[i] *)
FisherYates(s, js, i) ==
    IF i <= 0 THEN s ELSE FisherYates(Swap(s, i, js[i]), js, i - 1)

(* after the swaps: the shuffled notification, outside any try, then _save *)
ShuffleOut(stored, trks) ==
    LET new == StoredQueue(stored.current, stored.previous, trks)
        notes == IF Has("shuffled")
                 THEN <<Note("shuffled", <<>>, PosNumber(0),
                             Snapshot(stored), Snapshot(new))>>
                 ELSE <<>>
    IN  IF Has("shuffled") /\ watcher.throws
        THEN Out(trks, FALSE, stored.previous, FALSE, ResThrew, notes)
        ELSE Out(trks, FALSE, stored.previous, TRUE, ResLength, notes)

(* a shuffle whose early return takes the empty list only *)
shuffleSingle(p) ==
    /\ Resumes(p, "shuffle")
    /\ LET stored == Load(p)
           n == Len(stored.tracks)
       IN  IF n < 1
           THEN Settle(p, Reads(stored, ResNumber(n)))
           ELSE IF n <= 2
           THEN Settle(p, ShuffleOut(stored, Swap(stored.tracks, 0, n - 1)))
           ELSE \E js \in Draws(n) :
                  Settle(p, ShuffleOut(stored,
                                       FisherYates(stored.tracks, js, n - 1)))

shuffle(p) ==
    /\ Resumes(p, "shuffle")
    /\ LET stored == Load(p)
           n == Len(stored.tracks)
       IN  IF n <= 1
           THEN Settle(p, Reads(stored, ResNumber(n)))
           ELSE IF n = 2
           THEN Settle(p, ShuffleOut(stored, Swap(stored.tracks, 0, 1)))
           ELSE \E js \in Draws(n) :
                  Settle(p, ShuffleOut(stored,
                                       FisherYates(stored.tracks, js, n - 1)))

----------------------------------------------------------------------------
(* add *)

TrackLike(v) == isTrack(v) \/ isUnresolvedTrack(v)

(* (Array.isArray(x) ? x : [x]).flat(2).filter(isTrack || isUnresolvedTrack) *)
(*                                     .filter(isValid)                      *)
ValidTracks(groups) == SelectSeq(SelectSeq(Flat(groups), TrackLike), isValid)

(* one watcher call, made inside try/catch when the callback is a function *)
Notify(f, trks, pos, old, new) ==
    IF Has(f) THEN <<Note(f, trks, pos, Snapshot(old), Snapshot(new))>> ELSE <<>>

(* An add that appends whatever the index is *)
AddOutAppend(stored, a) ==
    LET validTracks == ValidTracks(a.groups)
        trks == stored.tracks \o validTracks
        new == StoredQueue(stored.current, stored.previous, trks)
    IN  Out(trks, FALSE, stored.previous, TRUE, ResLength,
            Notify("tracksAdd", validTracks, PosNumber(Len(trks)), stored, new))

AddOut(stored, a) ==
    LET validTracks == ValidTracks(a.groups)
        inside == a.hasI /\ a.i >= 0 /\ a.i < Len(stored.tracks)
        trks == IF inside
                THEN SpliceRest(stored.tracks, a.i, 0, validTracks)
                ELSE stored.tracks \o validTracks
        new == StoredQueue(stored.current, stored.previous, trks)
        pos == IF inside THEN a.i ELSE Len(trks)
    IN  Out(trks, FALSE, stored.previous, TRUE, ResLength,
            Notify("tracksAdd", validTracks, PosNumber(pos), stored, new))

add(p) ==
    /\ Resumes(p, "add")
    /\ Settle(p, AddOut(Load(p), proc[p].a))

----------------------------------------------------------------------------
(* splice *)

(* a splice that answers null when it removed nothing *)
SpliceOutNull(stored, a) ==
    LET validTracks == IF a.given THEN ValidTracks(a.groups) ELSE <<>>
        spliced == SpliceRemoved(stored.tracks, a.i, a.j)
        trks == SpliceRest(stored.tracks, a.i, a.j, validTracks)
    IN  Out(trks, FALSE, stored.previous, TRUE,
            IF spliced = <<>> THEN ResNull
            ELSE IF Len(spliced) = 1 THEN ResTrack(spliced[1]) ELSE ResList(spliced),
            <<>>)

(* a splice that never unwraps a single removed item *)
SpliceOutWrapped(stored, a) ==
    LET validTracks == IF a.given THEN ValidTracks(a.groups) ELSE <<>>
        spliced == SpliceRemoved(stored.tracks, a.i, a.j)
        trks == SpliceRest(stored.tracks, a.i, a.j, validTracks)
    IN  Out(trks, FALSE, stored.previous, TRUE, ResList(spliced), <<>>)

SpliceOut(stored, a) ==
    LET validTracks == IF a.given THEN ValidTracks(a.groups) ELSE <<>>
        spliced == SpliceRemoved(stored.tracks, a.i, a.j)
        trks == SpliceRest(stored.tracks, a.i, a.j, validTracks)
        new == StoredQueue(stored.current, stored.previous, trks)
        added == IF a.given
                 THEN Notify("tracksAdd", validTracks, PosNumber(a.i), stored, stored)
                 ELSE <<>>
        removed == Notify("tracksRemoved", spliced, PosNumber(a.i), stored, new)
    IN  Out(trks, FALSE, stored.previous, TRUE,
            IF Len(spliced) = 1 THEN ResTrack(spliced[1]) ELSE ResList(spliced),
            added \o removed)

splice(p) ==
    /\ Resumes(p, "splice")
    /\ LET stored == Load(p)
       IN  IF stored.tracks # <<>>
           THEN Settle(p, SpliceOut(stored, proc[p].a))
           ELSE IF ~proc[p].a.given
           THEN Settle(p, Reads(stored, ResNull))
           ELSE \* return await this.add(TrackOrTracks): add loads again
                /\ proc' = [proc EXCEPT ![p] =
                       [Entered("add", [proc[p].a EXCEPT !.hasI = FALSE])
                           EXCEPT !.via = "splice", !.gets = 2,
                                  !.left = proc[p].left,
                                  !.nth = proc[p].nth]]
                /\ UNCHANGED <<others, cfg, watcher, store, current, calls>>

----------------------------------------------------------------------------
(* remove *)

Truthy(x) == x # None

(* a match rule in which the first field both sides have decides *)
MatchesFirstPresent(t, v) ==
    LET both(f) == Truthy(Info[t][f]) /\ Truthy(Info[v][f])
        same(f) == Info[t][f] = Info[v][f]
    IN  IF both("encoded") THEN same("encoded")
        ELSE IF both("identifier") THEN same("identifier")
        ELSE IF both("uri") THEN same("uri")
        ELSE IF both("title") THEN same("title")
        ELSE IF both("isrc") THEN same("isrc")
        ELSE both("artworkUrl") /\ same("artworkUrl")

(* t.encoded && t.encoded === v.encoded || t.info?.identifier && ... *)
Matches(t, v) ==
    \/ Truthy(Info[t].encoded) /\ Info[t].encoded = Info[v].encoded
    \/ Truthy(Info[t].identifier) /\ Info[t].identifier = Info[v].identifier
    \/ Truthy(Info[t].uri) /\ Info[t].uri = Info[v].uri
    \/ Truthy(Info[t].title) /\ Info[t].title = Info[v].title
    \/ Truthy(Info[t].isrc) /\ Info[t].isrc = Info[v].isrc
    \/ Truthy(Info[t].artworkUrl) /\ Info[t].artworkUrl = Info[v].artworkUrl

RECURSIVE RemoveEach(_, _, _)
(* for (const i of indices) if (tracks[i]) removed.push(...tracks.splice(i, 1)) *)
RemoveEach(trks, indices, removed) ==
    IF indices = <<>> THEN [tracks |-> trks, removed |-> removed]
    ELSE IF Present(trks, Head(indices))
    THEN RemoveEach(SpliceRest(trks, Head(indices), 1, <<>>), Tail(indices),
                    Append(removed, At(trks, Head(indices))))
    ELSE RemoveEach(trks, Tail(indices), removed)

(* the test of removeQueryTrack.find for the track v at index i *)
EntryMatches(e, v, i) ==
    \/ e.num /\ e.n = i
    \/ ~e.num /\ Matches(e.t, v)

(* filter keeps the index when find returns a truthy entry: find returns   *)
(* the first matching entry, and the number 0 is falsy                     *)
Kept(q, v, i) ==
    LET ms == {m \in 1..Len(q) : EntryMatches(q[m], v, i)}
        first == CHOOSE m \in ms : \A k \in ms : m <= k
    IN  ms # {} /\ ~(q[first].num /\ q[first].n = 0)

RECURSIVE KeptIndices(_, _, _)
(* stored.tracks.map((v, i) => ({v, i})).filter(...), as the indices from i on *)
KeptIndices(trks, q, i) ==
    IF i >= Len(trks) THEN <<>>
    ELSE (IF Kept(q, At(trks, i), i) THEN <<i>> ELSE <<>>)
         \o KeptIndices(trks, q, i + 1)

AllNumbers(q) == \A m \in 1..Len(q) : q[m].num

RECURSIVE Numbers(_)
Numbers(q) == IF q = <<>> THEN <<>> ELSE <<Head(q).n>> \o Numbers(Tail(q))

(* the outcome of a removal: nothing found, or the list left, the items    *)
(* removed and the position reported                                       *)
Nothing(stored) == Reads(stored, ResNull)

Removal(stored, trks, removed, pos) ==
    Out(trks, FALSE, stored.previous, TRUE, ResRemoved(removed),
        Notify("tracksRemoved", removed, pos, stored,
               StoredQueue(stored.current, stored.previous, trks)))

(* a removal by index that does not look whether the index has a track *)
RemoveIndexUnchecked(stored, n) ==
    Removal(stored, SpliceRest(stored.tracks, n, 1, <<>>),
            SpliceRemoved(stored.tracks, n, 1), PosNumber(n))

RemoveIndex(stored, n) ==
    IF ~Present(stored.tracks, n) THEN Nothing(stored)
    ELSE Removal(stored, SpliceRest(stored.tracks, n, 1, <<>>),
                 SpliceRemoved(stored.tracks, n, 1), PosNumber(n))

RemoveIndices(stored, q) ==
    LET r == RemoveEach(stored.tracks, Numbers(q), <<>>)
    IN  IF r.removed = <<>> THEN Nothing(stored)
        ELSE Removal(stored, r.tracks, r.removed, PosList(Numbers(q)))

RemoveMixed(stored, q) ==
    LET tracksToRemove == KeptIndices(stored.tracks, q, 0)
        r == RemoveEach(stored.tracks, tracksToRemove, <<>>)
    IN  IF tracksToRemove = <<>> THEN Nothing(stored)
        ELSE Removal(stored, r.tracks, r.removed, PosList(tracksToRemove))

RemoveTrack(stored, t) ==
    LET toRemove == FirstIndex({k \in 0..(Len(stored.tracks) - 1) :
                                  Matches(t, At(stored.tracks, k))})
    IN  IF toRemove < 0 THEN Nothing(stored)
        ELSE Removal(stored, SpliceRest(stored.tracks, toRemove, 1, <<>>),
                     SpliceRemoved(stored.tracks, toRemove, 1),
                     PosNumber(toRemove))

RemoveOut(stored, a) ==
    IF a.form = "index" THEN RemoveIndex(stored, a.i)
    ELSE IF a.form = "array" /\ AllNumbers(a.q) THEN RemoveIndices(stored, a.q)
    ELSE IF a.form = "array" THEN RemoveMixed(stored, a.q)
    ELSE RemoveTrack(stored, a.t)

remove(p) ==
    /\ Resumes(p, "remove")
    /\ Settle(p, RemoveOut(Load(p), proc[p].a))

----------------------------------------------------------------------------
(* The calls made *)

C0(op) == [op |-> op, a |-> NoArg]

CT(op, t) == [op |-> op, a |-> [NoArg EXCEPT !.t = t]]

CI(op, i) == [op |-> op, a |-> [NoArg EXCEPT !.i = i]]

CIJ(op, i, j) == [op |-> op, a |-> [NoArg EXCEPT !.i = i, !.j = j, !.hasI = TRUE]]

CIT(op, i, t) == [op |-> op, a |-> [NoArg EXCEPT !.i = i, !.t = t]]

CList(op, l) == [op |-> op, a |-> [NoArg EXCEPT !.list = l]]

CAdd(groups) == [op |-> "add", a |-> [NoArg EXCEPT !.groups = groups, !.given = TRUE]]

CAddAt(groups, i) ==
    [op |-> "add",
     a |-> [NoArg EXCEPT !.groups = groups, !.given = TRUE, !.i = i, !.hasI = TRUE]]

CSplice(i, n) == [op |-> "splice", a |-> [NoArg EXCEPT !.i = i, !.j = n]]

CSpliceIn(i, n, groups) ==
    [op |-> "splice",
     a |-> [NoArg EXCEPT !.i = i, !.j = n, !.groups = groups, !.given = TRUE]]

CRemoveAt(i) == [op |-> "remove", a |-> [NoArg EXCEPT !.form = "index", !.i = i]]

CRemoveAll(q) == [op |-> "remove", a |-> [NoArg EXCEPT !.form = "array", !.q = q]]

CRemove(t) == [op |-> "remove", a |-> [NoArg EXCEPT !.form = "track", !.t = t]]

CSync(dontSyncCurrent) == [op |-> "sync", a |-> [NoArg EXCEPT !.flag = dontSyncCurrent]]

Batches ==
    {<<<<"tA">>>>, <<<<"tB">>>>, <<<<"tC">>>>, <<<<"uB">>>>,
     <<<<"tA", "uA", "uB">>>>,
     <<<<"tN", "uA">>, <<"tU", "junk", "tB">>>>}

ReadCalls ==
    {C0("getTracks"), C0("getTrackCount"), C0("getPrevious"),
     C0("getPreviousCount"), C0("toJSON"), C0("totalDuration"),
     CI("getPreviousTrack", 0), CI("getTracksSlice", 1),
     CIJ("getTracksSlice", 0, 2), CList("findTrackIndex", <<"tB", "uA">>)}
    \cup {CI("getTrack", i) : i \in {0, 1}}

PrimitiveCalls ==
    {C0("clearTracks"), C0("shiftTrack"), C0("shiftPrevious"), C0("save"),
     C0("shuffle"), CT("unshiftTrack", "tC"), CT("pushTrack", "tA"),
     CT("pushTrack", "tC"), CList("setTracks", <<"tB", "junk">>)}
    \cup {CT("addToPrevious", t) : t \in {"tA", "tB", "tC"}}
    \cup {CIJ("moveTrack", -1, 0), CIJ("moveTrack", MaxTracks, 0),
          CIJ("moveTrack", 0, 1), CIJ("moveTrack", 0, MaxTracks + 2),
          CIJ("moveTrack", 2, 0)}
    \cup {CIT("replaceTrack", i, "tC") : i \in {-1, 1, MaxTracks}}
    \cup {CIJ("swapTracks", 0, 2), CIJ("swapTracks", 1, 1),
          CIJ("swapTracks", -1, 0), CIJ("swapTracks", 0, MaxTracks)}
    \cup {CSync(TRUE), CSync(FALSE)}

AddCalls ==
    {CAdd(b) : b \in Batches}
    \cup {CAddAt(<<<<"tB">>>>, 0), CAddAt(<<<<"uB", "tC">>>>, 1),
          CAddAt(<<<<"tB">>>>, -1), CAddAt(<<<<"uB">>>>, MaxTracks)}

SpliceCalls ==
    {CSplice(0, 0), CSplice(0, 1), CSplice(1, 1), CSplice(0, 2), CSplice(1, 2),
     CSplice(-1, 1), CSplice(MaxTracks, 1)}
    \cup {CSpliceIn(1, 0, <<<<"uB">>>>), CSpliceIn(0, 1, <<<<"tC", "uB">>>>),
          CSpliceIn(0, 0, <<<<"tA">>>>), CSpliceIn(0, 0, <<<<"tN">>>>)}

RemoveCalls ==
    {CRemoveAt(i) : i \in -1..MaxTracks}
    \cup {CRemoveAll(q) : q \in {<<>>, <<QNum(0), QNum(1)>>, <<QNum(1), QNum(0)>>,
                                 <<QNum(2), QNum(0)>>, <<QNum(MaxTracks)>>,
                                 <<QTrack("tA"), QTrack("uA")>>,
                                 <<QTrack("tB"), QTrack("uB")>>,
                                 <<QTrack("tC")>>,
                                 <<QNum(0), QTrack("uA")>>,
                                 <<QNum(1), QTrack("tA")>>}}
    \cup {CRemove(t) : t \in {"tA", "tB", "tC", "uB", "junk"}}

Calls == ReadCalls \cup PrimitiveCalls \cup AddCalls \cup SpliceCalls \cup RemoveCalls

(* how much longer than MaxTracks a call could make the list it finds *)
Grows(c) ==
    IF c.op \in {"add", "splice"} THEN Len(ValidTracks(c.a.groups))
    ELSE IF c.op \in {"pushTrack", "unshiftTrack"} THEN 1
    ELSE 0

Fits(c) == Len(store.tracks) + Grows(c) <= MaxTracks

Resume(p) ==
    \/ getTracks(p) \/ getTrackCount(p) \/ getTrack(p) \/ getTracksSlice(p)
    \/ getPrevious(p) \/ getPreviousTrack(p) \/ getPreviousCount(p)
    \/ findTrackIndex(p)
    \/ clearTracks(p) \/ unshiftTrack(p) \/ shiftTrack(p) \/ pushTrack(p)
    \/ setTracks(p) \/ moveTrack(p) \/ addToPrevious(p) \/ replaceTrack(p)
    \/ swapTracks(p) \/ shiftPrevious(p)
    \/ save(p) \/ sync(p) \/ toJSON(p) \/ totalDuration(p)
    \/ shuffle(p) \/ add(p) \/ splice(p) \/ remove(p)

(* The caller awaits each call before it makes the next *)
Call(p) == \E c \in Calls : Fits(c) /\ Invoke(p, c.op, c.a)

Next ==
    \/ Call(1)
    \/ destroy(1)
    \/ Resume(1)
    \/ QueueSaver_set(1)
    \/ Return(1)
    \/ Await(1)
    \/ Reconstruct(1)
    \/ ThenShiftPrevious(1)

Spec == Init /\ [][Next]_vars

----------------------------------------------------------------------------
(* Two callers that do not wait for each other *)

PartialSpec == InitPartial /\ [][Next]_vars

(* A Queue of another guild saves its entry, or destroys it: the store   *)
(* sets or deletes under that guild's id                                  *)
OtherGuild ==
    /\ others' = IF others.exists THEN NoEntry ELSE OtherEntries
    /\ UNCHANGED <<cfg, watcher, store, current, proc, calls>>

SerialCalls ==
    {CT("pushTrack", "tA"), CAdd(<<<<"tB">>>>), CAddAt(<<<<"uB">>>>, 0),
     CSpliceIn(0, 1, <<<<"tA">>>>), CRemoveAt(0), C0("shuffle"),
     C0("shiftTrack"), CT("addToPrevious", "tB"), C0("shiftPrevious"),
     C0("getTracks"), C0("save"), C0("clearTracks"),
     CT("unshiftTrack", "tC"), CList("setTracks", <<"tB", "junk">>),
     CIJ("moveTrack", 0, 1), CIT("replaceTrack", 0, "tC"),
     CIJ("swapTracks", 0, 1), CRemove("tA"),
     CRemoveAll(<<QNum(1), QNum(0)>>)}

SerialCall(p) == \E c \in SerialCalls : Fits(c) /\ Invoke(p, c.op, c.a)

(* One caller awaiting each call, while the other guild's Queue works *)
SerialNext ==
    \/ SerialCall(1)
    \/ destroy(1)
    \/ pushTrack(1) \/ add(1) \/ splice(1) \/ remove(1) \/ shuffle(1)
    \/ shiftTrack(1) \/ addToPrevious(1) \/ shiftPrevious(1)
    \/ getTracks(1) \/ save(1)
    \/ clearTracks(1) \/ unshiftTrack(1) \/ setTracks(1) \/ moveTrack(1)
    \/ replaceTrack(1) \/ swapTracks(1)
    \/ QueueSaver_set(1)
    \/ Return(1)
    \/ Await(1)
    \/ OtherGuild

SerialSpec == Init /\ [][SerialNext]_vars

RaceCalls ==
    {CT("pushTrack", "tA"), CT("pushTrack", "tC"), CAdd(<<<<"tB", "tN">>>>),
     C0("clearTracks"), C0("getTracks")}

RaceCall(p) == \E c \in RaceCalls : Invoke(p, c.op, c.a)

RaceNext ==
    \E p \in Procs :
        \/ RaceCall(p)
        \/ destroy(p)
        \/ getTracks(p) \/ pushTrack(p) \/ add(p) \/ clearTracks(p)
        \/ QueueSaver_set(p)
        \/ Return(p)
        \/ Await(p)

RaceSpec == Init /\ [][RaceNext]_vars

----------------------------------------------------------------------------
(* Properties of the calls that have returned *)

Returned(p, op) == proc[p].pc = "done" /\ proc[p].op = op

(* C1: after every save, the previous list written to the store is no      *)
(* longer than the maxPreviousTracks value given in the construction       *)
(* options, for every given value >= 0, 0 included.                        *)
C1_PreviousWithinConfiguredCap ==
    \A p \in Procs :
        proc[p].saved /\ cfg.given => Len(proc[p].wrote.previous) <= cfg.n

(* the operations that notify the watcher *)
Notifying == {"add", "splice", "remove", "shuffle"}

(* C2: when the watcher callback of a notifying operation throws, the      *)
(* operation still saves its state and returns its normal result.          *)
C2_WatcherFailureAbsorbed ==
    \A p \in Procs :
        (/\ proc[p].pc = "done"
         /\ proc[p].op \in Notifying
         /\ watcher.throws
         /\ proc[p].notes # <<>>)
        => proc[p].saved /\ proc[p].result.kind # "threw"

(* the tracks a call puts on the list *)
OwnUpdate(p) ==
    IF proc[p].op = "pushTrack" THEN <<proc[p].a.t>>
    ELSE IF proc[p].op = "add" THEN ValidTracks(proc[p].a.groups)
    ELSE <<>>

(* the first two calls on the session are appending calls, one of each    *)
(* caller, and both have returned; each had read the store before the     *)
(* other wrote: neither found an entry                                     *)
BothAppended ==
    /\ calls = 2
    /\ \A p \in Procs :
          /\ proc[p].pc = "done"
          /\ proc[p].op \in {"pushTrack", "add"}
          /\ ~proc[p].data.exists

(* C3: two appending calls (pushTrack or add) that run concurrently on a   *)
(* session without entry both save and return the length of their own     *)
(* list, and the store is left with the whole document of one of them:    *)
(* the tracks of the other are not in it.                                  *)
C3_OneUpdateSurvives ==
    BothAppended =>
        /\ \A p \in Procs :
              /\ proc[p].saved
              /\ proc[p].wrote.tracks = OwnUpdate(p)
              /\ proc[p].result = ResNumber(Len(OwnUpdate(p)))
        /\ store.exists
        /\ \E p \in Procs : store.tracks = OwnUpdate(p)

(* C3 witness: pushTrack(tA) and pushTrack(tC) have both returned 1 and    *)
(* the store holds one track.                                              *)
C3_LostUpdateReached ==
    /\ BothAppended
    /\ {proc[p].a.t : p \in Procs} = {"tA", "tC"}
    /\ \A p \in Procs : proc[p].op = "pushTrack" /\ proc[p].result = ResNumber(1)
    /\ Len(store.tracks) = 1

(* occurrences of t in s *)
Count(s, t) == Cardinality({k \in 1..Len(s) : s[k] = t})

TrackNames == DOMAIN Info

(* a duration that is a number of at least 10000 ms *)
GoodDuration(t) ==
    Info[t].duration.tag = "num" /\ Info[t].duration.ms >= MinDuration

(* how many times the add call of p inserted t *)
Inserted(p, t) == Count(proc[p].wrote.tracks, t) - Count(proc[p].loadedT, t)

(* C4: an add call inserts no resolved Track whose duration is missing,    *)
(* NaN or below 10000 ms, and inserts every unresolved track it is passed, *)
(* whatever its duration.                                                  *)
C4_AddFiltersByDuration ==
    \A p \in Procs :
        Returned(p, "add") =>
            \A t \in TrackNames :
                /\ isTrack(t) /\ ~GoodDuration(t) => Inserted(p, t) = 0
                /\ isUnresolvedTrack(t) =>
                      Inserted(p, t) = Count(Flat(proc[p].a.groups), t)

(* C4 witness: an add that was passed a NaN-duration Track and an          *)
(* unresolved track without duration has saved the unresolved one only.    *)
C4_AddFilteredReached ==
    \E p \in Procs :
        /\ Returned(p, "add")
        /\ Count(Flat(proc[p].a.groups), "tN") = 1
        /\ Count(Flat(proc[p].a.groups), "uA") = 1
        /\ Count(proc[p].wrote.tracks, "uA") = 1
        /\ Count(proc[p].wrote.tracks, "tN") = 0

----------------------------------------------------------------------------
(* remove *)

FieldOrder == <<"encoded", "identifier", "uri", "title", "isrc", "artworkUrl">>

(* some field is given on the query and equal on the candidate *)
AnyFieldMatch(t, v) ==
    \E k \in 1..Len(FieldOrder) :
        /\ Info[t][FieldOrder[k]] # None
        /\ Info[t][FieldOrder[k]] = Info[v][FieldOrder[k]]

(* the first field present on both sides is equal: a field counts only     *)
(* when every earlier one is absent on at least one side                   *)
FirstFieldMatch(t, v) ==
    \E k \in 1..Len(FieldOrder) :
        /\ Info[t][FieldOrder[k]] # None
        /\ Info[t][FieldOrder[k]] = Info[v][FieldOrder[k]]
        /\ \A m \in 1..(k - 1) :
              Info[t][FieldOrder[m]] = None \/ Info[v][FieldOrder[m]] = None

RECURSIVE Only(_, _, _)
(* the items of s at the 0-based indices in S, from index i on, in order *)
Only(s, S, i) ==
    IF i >= Len(s) THEN <<>>
    ELSE (IF i \in S THEN <<At(s, i)>> ELSE <<>>) \o Only(s, S, i + 1)

Indices(s) == 0..(Len(s) - 1)

(* the indices of s, as a list *)
Positions(s) == [k \in 1..Len(s) |-> k - 1]

Without(s, S) == Only(s, Indices(s) \ S, 0)

SameItems(s, r) == \A t \in TrackNames : Count(s, t) = Count(r, t)

Least(S) == CHOOSE k \in S : \A m \in S : k <= m

TrackRemove(p) == Returned(p, "remove") /\ proc[p].a.form = "track"

ArrayRemove(p) == Returned(p, "remove") /\ proc[p].a.form = "array"

IndexRemove(p) == Returned(p, "remove") /\ proc[p].a.form = "index"

QueryHits(q, L) ==
    {k \in Indices(L) : \E m \in 1..Len(q) : EntryMatches(q[m], At(L, k), k)}

(* C6: remove with an array of tracks, or of tracks and indices, removes   *)
(* every track of the loaded list that some entry matches and no other:    *)
(* the removed items are the matches, the saved list the rest in order.    *)
C6_ArrayRemovesExactlyTheMatches ==
    \A p \in Procs :
        ArrayRemove(p) /\ ~AllNumbers(proc[p].a.q) =>
            LET L == proc[p].loadedT
                hits == QueryHits(proc[p].a.q, L)
            IN  IF hits = {}
                THEN proc[p].result = ResNull /\ ~proc[p].saved
                ELSE /\ proc[p].result.kind = "removed"
                     /\ SameItems(proc[p].result.items, Only(L, hits, 0))
                     /\ proc[p].saved
                     /\ proc[p].wrote.tracks = Without(L, hits)

(* C7: remove with an array of indices removes each index present in the   *)
(* list as loaded: the removed items are the tracks that were there, the   *)
(* saved list is the loaded list without them, and the call returns null   *)
(* without saving when no index is present.                                *)
C7_IndexArrayRemovesLoadedIndices ==
    \A p \in Procs :
        ArrayRemove(p) /\ AllNumbers(proc[p].a.q) =>
            LET L == proc[p].loadedT
                q == proc[p].a.q
                hits == {q[m].n : m \in 1..Len(q)} \cap Indices(L)
            IN  IF hits = {}
                THEN proc[p].result = ResNull /\ ~proc[p].saved
                ELSE /\ proc[p].result.kind = "removed"
                     /\ SameItems(proc[p].result.items, Only(L, hits, 0))
                     /\ proc[p].saved
                     /\ proc[p].wrote.tracks = Without(L, hits)

(* C8: remove(i) with a track at i returns that track, leaves the list one *)
(* shorter with the others in order, so that the track read at i next is   *)
(* the one that was at i+1; without a track at i it returns null and the   *)
(* store is as it was when the call read it.                               *)
C8_RemoveIndexShiftsLeft ==
    \A p \in Procs :
        IndexRemove(p) =>
            LET L == proc[p].loadedT
                i == proc[p].a.i
            IN  IF InRange(L, i)
                THEN /\ proc[p].result = ResRemoved(<<At(L, i)>>)
                     /\ proc[p].saved
                     /\ Len(store.tracks) = Len(L) - 1
                     /\ store.tracks = Without(L, {i})
                     /\ ElementAt(store.tracks, i) = ElementAt(L, i + 1)
                ELSE /\ proc[p].result = ResNull
                     /\ ~proc[p].saved
                     /\ store = proc[p].data

(* C8 witness: remove(0) has returned the first of at least two tracks *)
C8_RemoveIndexReached ==
    \E p \in Procs :
        /\ IndexRemove(p)
        /\ proc[p].a.i = 0
        /\ Len(proc[p].loadedT) >= 2
        /\ proc[p].result.kind = "removed"
        /\ ElementAt(store.tracks, 0) = ResTrack(At(proc[p].loadedT, 1))

(* the query of a remove call selects nothing of the loaded list *)
NothingToRemove(p) ==
    LET L == proc[p].loadedT
        a == proc[p].a
    IN  \/ a.form = "index" /\ ~InRange(L, a.i)
        \/ a.form = "array" /\ AllNumbers(a.q)
              /\ \A m \in 1..Len(a.q) : ~InRange(L, a.q[m].n)
        \/ a.form = "track"
              /\ \A k \in Indices(L) : ~AnyFieldMatch(a.t, At(L, k))

(* the index and amount of a splice call select no item of the loaded list *)
NothingToSplice(p) ==
    SpliceRemoved(proc[p].loadedT, proc[p].a.i, proc[p].a.j) = <<>>

(* C9 as stated: remove and splice return null whenever nothing was        *)
(* matched or removed.                                                     *)
C9_NothingRemovedReturnsNull ==
    \A p \in Procs :
        \/ Returned(p, "remove") /\ NothingToRemove(p)
        \/ Returned(p, "splice") /\ NothingToSplice(p)
        => proc[p].result = ResNull

(* C9 amended: remove returns null, without saving, whenever its query     *)
(* selects nothing; splice returns null, without saving, only on an empty  *)
(* list with no replacement tracks; on an empty list with replacement      *)
(* tracks it returns what add returns, and on a non-empty list a splice    *)
(* that selects no item saves and returns the empty array.  None raises.   *)
C9_NullOnlyWhenNothingToDo ==
    \A p \in Procs :
        /\ Returned(p, "remove") /\ NothingToRemove(p) =>
              proc[p].result = ResNull /\ ~proc[p].saved
        /\ Returned(p, "splice") /\ proc[p].loadedT = <<>> =>
              ~proc[p].a.given /\ proc[p].result = ResNull /\ ~proc[p].saved
        /\ Returned(p, "splice") /\ proc[p].loadedT # <<>> /\ NothingToSplice(p) =>
              proc[p].result = ResList(<<>>) /\ proc[p].saved
        /\ Returned(p, "add") /\ proc[p].via = "splice" =>
              proc[p].result.kind = "number" /\ proc[p].saved

(* C9 witness: a splice of no item on a non-empty list has returned the    *)
(* empty array.                                                            *)
C9_EmptySpliceReached ==
    \E p \in Procs :
        /\ Returned(p, "splice")
        /\ proc[p].loadedT # <<>>
        /\ NothingToSplice(p)
        /\ proc[p].result = ResList(<<>>)

----------------------------------------------------------------------------
(* bounds *)

(* the call of p was given an index outside [0, len) of the loaded list *)
OutOfBounds(p) ==
    LET L == proc[p].loadedT
    IN  \/ Returned(p, "moveTrack") /\ ~InRange(L, proc[p].a.i)
        \/ Returned(p, "replaceTrack") /\ ~InRange(L, proc[p].a.i)
        \/ Returned(p, "swapTracks")
              /\ (~InRange(L, proc[p].a.i) \/ ~InRange(L, proc[p].a.j))

(* C10: moveTrack with from outside [0, len) returns undefined, and        *)
(* replaceTrack and swapTracks with an index outside [0, len) return       *)
(* false; no save is made, the stored document is as it was read, and      *)
(* nothing is raised.                                                      *)
C10_BoundsViolationsAreNoOps ==
    \A p \in Procs :
        OutOfBounds(p) =>
            /\ proc[p].result = IF proc[p].op = "moveTrack"
                                THEN ResUndefined ELSE ResBool(FALSE)
            /\ ~proc[p].saved
            /\ store = proc[p].data

(* C10 witness: replaceTrack at index = length of a non-empty list has     *)
(* returned false.                                                         *)
C10_OutOfBoundsReached ==
    \E p \in Procs :
        /\ Returned(p, "replaceTrack")
        /\ proc[p].loadedT # <<>>
        /\ proc[p].a.i = Len(proc[p].loadedT)
        /\ proc[p].result = ResBool(FALSE)

----------------------------------------------------------------------------
(* shuffle *)

(* C11: shuffle leaves a permutation of the loaded list, two tracks being *)
(* always exchanged; when it returns, it returns the length of the list   *)
(* and, for two or more tracks, has saved that permutation.                *)
C11_ShuffleIsPermutation ==
    \A p \in Procs :
        Returned(p, "shuffle") =>
            LET L == proc[p].loadedT
            IN  /\ SameItems(store.tracks, L)
                /\ Len(store.tracks) = Len(L)
                /\ Len(L) = 2 => store.tracks = <<L[2], L[1]>>
                /\ proc[p].result # ResThrew =>
                      /\ proc[p].result = ResNumber(Len(L))
                      /\ Len(L) >= 2 =>
                            proc[p].saved /\ proc[p].wrote.tracks = store.tracks

(* C11 witness: a shuffle of three tracks has saved them in another order *)
C11_ShuffledReached ==
    \E p \in Procs :
        /\ Returned(p, "shuffle")
        /\ Len(proc[p].loadedT) = 3
        /\ proc[p].saved
        /\ proc[p].wrote.tracks # proc[p].loadedT
        /\ proc[p].result = ResNumber(3)

(* C12: a shuffle of no track or of one track returns that length, saves   *)
(* nothing, notifies nobody and leaves the stored document as it was read. *)
C12_ShortShuffleIsNoOp ==
    \A p \in Procs :
        Returned(p, "shuffle") /\ Len(proc[p].loadedT) <= 1 =>
            /\ proc[p].result = ResNumber(Len(proc[p].loadedT))
            /\ ~proc[p].saved
            /\ proc[p].notes = <<>>
            /\ store = proc[p].data

(* C12 witness: with a shuffled callback registered, a shuffle of one      *)
(* track has returned 1.                                                   *)
C12_ShortShuffleReached ==
    \E p \in Procs :
        /\ Returned(p, "shuffle")
        /\ Len(proc[p].loadedT) = 1
        /\ Has("shuffled")
        /\ proc[p].result = ResNumber(1)

----------------------------------------------------------------------------
(* utils.destroy, utils.sync and the calls that find no entry *)

(* What each read returns on a list that is empty *)
EmptyRead ==
    [getTracks |-> ResArray(<<>>), getPrevious |-> ResArray(<<>>),
     getTracksSlice |-> ResList(<<>>), getTrackCount |-> ResNumber(0),
     getPreviousCount |-> ResNumber(0), getTrack |-> ResUndefined,
     getPreviousTrack |-> ResUndefined, findTrackIndex |-> ResNumber(-1)]

(* C13: when utils.destroy has returned the store holds no entry of the   *)
(* guild, and it holds none after any later call that found none and did  *)
(* not save: utils.sync then fails and the reads return empty results.    *)
(* The entries of the other guilds stay as they were.                     *)
C13_DestroyedUntilSaved ==
    /\ others = OtherEntries
    /\ \A p \in Procs :
        /\ Returned(p, "destroy") =>
              /\ store = NoEntry
              /\ proc[p].result = ResBool(proc[p].data.exists)
        /\ proc[p].pc = "done" /\ ~proc[p].data.exists /\ ~proc[p].saved =>
              /\ store = NoEntry
              /\ proc[p].op = "sync" => proc[p].result = ResThrew
              /\ proc[p].op \in DOMAIN EmptyRead =>
                    proc[p].result = EmptyRead[proc[p].op]

C13_DestroyedReached ==
    \E p \in Procs :
        /\ Returned(p, "destroy")
        /\ proc[p].data.exists
        /\ proc[p].data.tracks # <<>>
        /\ proc[p].result = ResBool(TRUE)
        /\ store = NoEntry

(* C14: utils.sync never writes to the store. With no entry it throws and *)
(* leaves the in-memory current alone; with an entry it returns, and the  *)
(* in-memory current becomes the remote one exactly when dontSyncCurrent  *)
(* is false, the local current is null and the remote current is a Track. *)
C14_SyncAdoptsOnlyMissingCurrent ==
    \A p \in Procs :
        Returned(p, "sync") =>
            LET me == proc[p]
                adopt == /\ ~me.a.flag
                         /\ me.current = Null
                         /\ isTrack(me.data.current)
            IN  /\ store = me.data
                /\ ~me.saved
                /\ ~me.data.exists =>
                      me.result = ResThrew /\ current = me.current
                /\ me.data.exists =>
                      /\ me.result = ResUndefined
                      /\ current = IF adopt THEN me.data.current ELSE me.current

C14_RemoteCurrentAdoptedReached ==
    \E p \in Procs :
        /\ Returned(p, "sync")
        /\ ~proc[p].a.flag
        /\ proc[p].data.exists
        /\ proc[p].current = Null
        /\ isTrack(proc[p].data.current)
        /\ current = proc[p].data.current
        /\ store = proc[p].data

(* The entry a call read lacks a list, or is no entry at all *)
Partial(d) == ~d.exists \/ ~d.hasT \/ ~d.hasP

(* C15: a call other than utils.sync that reads a missing entry, or one   *)
(* lacking previous or tracks, does not throw; it takes each absent list  *)
(* as empty and, when it saves, writes a document with both lists.        *)
C15_AbsentListsTolerated ==
    \A p \in Procs :
        (/\ proc[p].pc = "done"
         /\ proc[p].op \notin {"sync", "destroy"}
         /\ Partial(proc[p].data)) =>
            /\ proc[p].result # ResThrew
            /\ proc[p].loadedT =
                  (IF proc[p].data.hasT THEN proc[p].data.tracks ELSE <<>>)
            /\ proc[p].loadedP =
                  (IF proc[p].data.hasP THEN proc[p].data.previous ELSE <<>>)
            /\ proc[p].saved => store.exists /\ store.hasT /\ store.hasP

----------------------------------------------------------------------------
(* The reads *)

(* C16: each of the eight reads loads once, does not save, calls no       *)
(* watcher callback, and leaves the stored entry and the in-memory        *)
(* current as they were.                                                  *)
C16_ReadsChangeNothing ==
    \A p \in Procs :
        (proc[p].pc = "done" /\ proc[p].op \in DOMAIN EmptyRead) =>
            /\ proc[p].gets = 1
            /\ ~proc[p].saved
            /\ proc[p].notes = <<>>
            /\ store = proc[p].data
            /\ current = proc[p].current

C16_SliceReadReached ==
    \E p \in Procs :
        /\ Returned(p, "getTracksSlice")
        /\ Len(proc[p].result.items) = 2
        /\ Has("tracksAdd")
        /\ store = proc[p].data
        /\ Len(store.tracks) = 3

----------------------------------------------------------------------------
(* addToPrevious *)

(* The first n entries of s *)
Take(s, n) == SubSeq(s, 1, Min(n, Len(s)))

----------------------------------------------------------------------------
(* utils.toJSON *)

(* C18: utils.toJSON does not save and returns lists that are copies; on  *)
(* a Queue constructed from the JSON of a first utils.toJSON, over the    *)
(* same store, it returns the same current, previous and tracks.          *)
C18_ToJSONRoundTrip ==
    \A p \in Procs :
        Returned(p, "toJSON") =>
            /\ ~proc[p].saved
            /\ ~proc[p].result.alias
            /\ proc[p].result.kind = "doc"
            /\ proc[p].from.given => proc[p].result.doc = proc[p].from.doc

C18_RoundTripReached ==
    \E p \in Procs :
        /\ Returned(p, "toJSON")
        /\ proc[p].from.given
        /\ proc[p].result.doc = proc[p].from.doc
        /\ proc[p].result.doc.current = "tA"
        /\ Len(proc[p].result.doc.tracks) = 2

----------------------------------------------------------------------------
(* The watcher *)

(* the state the call of p loaded *)
Loaded(p) == StoredQueue(proc[p].current, proc[p].loadedP, proc[p].loadedT)

(* C19: every notification of add, splice, remove and shuffle carries as  *)
(* oldSnapshot the state the call loaded and as newSnapshot the state     *)
(* after the change, whose track list is the one the call then saves.     *)
C19_SnapshotsAreBeforeAndAfter ==
    \A p \in Procs :
        (proc[p].pc = "done" /\ proc[p].op \in Notifying) =>
            \A k \in 1..Len(proc[p].notes) :
                /\ proc[p].notes[k].old = Loaded(p)
                /\ proc[p].saved =>
                      proc[p].notes[k].new.tracks = proc[p].wrote.tracks

(* C20: the position of every tracksAdd notification of add is the index *)
(* at which the first added track sits in the new list: the index given   *)
(* for an insert inside the list, the length of the loaded list for an    *)
(* append.                                                                *)
C20_PositionIsInsertionIndex ==
    \A p \in Procs :
        Returned(p, "add") =>
            \A k \in 1..Len(proc[p].notes) :
                proc[p].notes[k].event = "tracksAdd" =>
                    proc[p].notes[k].position =
                        PosNumber(IF /\ proc[p].a.hasI
                                     /\ InRange(proc[p].loadedT, proc[p].a.i)
                                  THEN proc[p].a.i
                                  ELSE Len(proc[p].loadedT))

----------------------------------------------------------------------------
(* add, splice, moveTrack, shiftPrevious *)

(* C21: add saves the loaded list with the filtered batch put in, whole   *)
(* and in order, at the index given when that index is inside the list,   *)
(* and at the end otherwise; it returns the length of the list it saved.  *)
C21_AddInsertsOrAppends ==
    \A p \in Procs :
        Returned(p, "add") =>
            LET L == proc[p].loadedT
                batch == ValidTracks(proc[p].a.groups)
                i == proc[p].a.i
                inside == proc[p].a.hasI /\ i >= 0 /\ i < Len(L)
            IN  /\ proc[p].saved
                /\ proc[p].wrote.tracks =
                      IF inside
                      THEN SubSeq(L, 1, i) \o batch \o SubSeq(L, i + 1, Len(L))
                      ELSE L \o batch
                /\ proc[p].result = ResNumber(Len(proc[p].wrote.tracks))

(* C21 witness: one track has been added between two others *)
C21_InsertedInsideReached ==
    \E p \in Procs :
        /\ Returned(p, "add")
        /\ proc[p].a.hasI /\ proc[p].a.i = 1
        /\ Len(proc[p].loadedT) = 2
        /\ Len(proc[p].wrote.tracks) = 3
        /\ proc[p].wrote.tracks[1] = proc[p].loadedT[1]
        /\ proc[p].wrote.tracks[3] = proc[p].loadedT[2]
        /\ proc[p].result = ResNumber(3)

(* C22: splice on a list that is not empty saves the list without the    *)
(* amount items from index on (an index below 0 counts from the end, the  *)
(* amount stops at the end) and with the filtered replacements in their   *)
(* place; it returns the removed item when there is one, the sequence of  *)
(* the removed items otherwise.  On an empty list it returns null without *)
(* saving when no replacements are given, and is an add of them otherwise.*)
C22_SpliceRemovesAndInserts ==
    \A p \in Procs :
        /\ Returned(p, "splice") =>
              LET L == proc[p].loadedT
                  i == proc[p].a.i
                  start == IF i < 0 THEN Max(Len(L) + i, 0) ELSE Min(i, Len(L))
                  n == Max(0, Min(proc[p].a.j, Len(L) - start))
                  removed == SubSeq(L, start + 1, start + n)
                  ins == IF proc[p].a.given
                         THEN ValidTracks(proc[p].a.groups) ELSE <<>>
              IN  IF L = <<>>
                  THEN /\ ~proc[p].a.given
                       /\ proc[p].result = ResNull
                       /\ ~proc[p].saved
                  ELSE /\ proc[p].saved
                       /\ proc[p].wrote.tracks =
                             SubSeq(L, 1, start) \o ins
                             \o SubSeq(L, start + n + 1, Len(L))
                       /\ proc[p].result = IF n = 1 THEN ResTrack(removed[1])
                                           ELSE ResList(removed)
        /\ (Returned(p, "add") /\ proc[p].via = "splice") =>
              /\ proc[p].loadedT = <<>>
              /\ proc[p].a.given
              /\ proc[p].saved
              /\ proc[p].wrote.tracks = ValidTracks(proc[p].a.groups)
              /\ proc[p].result = ResNumber(Len(proc[p].wrote.tracks))

(* C22 witness: splice(1, 0, uB) on two tracks has saved uB between them *)
(* and returned the empty sequence                                       *)
C22_SplicedInReached ==
    \E p \in Procs :
        /\ Returned(p, "splice")
        /\ proc[p].a.i = 1 /\ proc[p].a.j = 0 /\ proc[p].a.given
        /\ Len(proc[p].loadedT) = 2
        /\ proc[p].wrote.tracks =
              <<proc[p].loadedT[1], "uB", proc[p].loadedT[2]>>
        /\ proc[p].result = ResList(<<>>)

(* C23: shiftPrevious on an empty previous list returns null and does not *)
(* save; otherwise it returns the head and saves the rest.  Made as soon  *)
(* as addToPrevious(t) has returned, it returns t, and the previous list  *)
(* is again the one addToPrevious loaded when that one was shorter than   *)
(* the cap.                                                               *)
C23_ShiftPreviousUndoesAdd ==
    \A p \in Procs :
        Returned(p, "shiftPrevious") =>
            LET P == proc[p].loadedP
                before == proc[p].prior
            IN  /\ IF P = <<>>
                   THEN /\ proc[p].result = ResNull
                        /\ ~proc[p].saved
                        /\ store = proc[p].data
                   ELSE /\ proc[p].result = ResTrack(P[1])
                        /\ proc[p].saved
                        /\ proc[p].wrote.previous = SubSeq(P, 2, Len(P))
                        /\ store.previous = proc[p].wrote.previous
                /\ before.given =>
                      /\ proc[p].result = ResTrack(before.t)
                      /\ Len(before.previous) < maxPreviousTracks =>
                            store.previous = before.previous

(* C23 witness: addToPrevious then shiftPrevious on a previous list of    *)
(* one other track                                                        *)
C23_AddThenShiftReached ==
    \E p \in Procs :
        /\ Returned(p, "shiftPrevious")
        /\ proc[p].prior.given
        /\ Len(proc[p].prior.previous) = 1
        /\ proc[p].prior.previous[1] # proc[p].prior.t
        /\ proc[p].result = ResTrack(proc[p].prior.t)
        /\ store.previous = proc[p].prior.previous

----------------------------------------------------------------------------
(* The in-memory current *)

(* the call of p has saved and returned *)
SavedAndReturned(p) == proc[p].pc = "done" /\ proc[p].saved

(* the step is the one of utils.sync, or the construction of a new Queue *)
SyncOrConstruction ==
    \E p \in Procs :
        \/ proc[p].pc = "loaded" /\ proc[p].op = "sync" /\ proc'[p].pc = "done"
        \/ proc[p].pc = "done" /\ proc[p].op = "toJSON" /\ proc'[p].pc = "loaded"

(* C25: when a saving call has returned, the current of the stored entry  *)
(* is the in-memory current; utils.save writes the loaded tracks and the  *)
(* loaded previous list cut to the cap; and the in-memory current changes *)
(* in no step of a reading or mutating call: only utils.sync and the      *)
(* construction of a Queue assign it.                                     *)
C25_SaveWritesMemoryCurrent ==
    /\ [](\A p \in Procs :
            /\ SavedAndReturned(p) =>
                  /\ store.exists
                  /\ store.current = current
                  /\ proc[p].wrote.current = current
            /\ Returned(p, "save") =>
                  /\ proc[p].saved
                  /\ proc[p].wrote.tracks = proc[p].loadedT
                  /\ proc[p].wrote.previous =
                        Take(proc[p].loadedP, maxPreviousTracks))
    /\ [][current' # current => SyncOrConstruction]_vars

(* C25 witness: utils.save has replaced another stored current by the     *)
(* in-memory one                                                          *)
C25_CurrentOverwrittenReached ==
    \E p \in Procs :
        /\ Returned(p, "save")
        /\ proc[p].data.exists
        /\ isTrack(proc[p].data.current)
        /\ current # Null
        /\ proc[p].data.current # current
        /\ store.current = current

----------------------------------------------------------------------------
(* Calls made one after the other *)

(* the lists a load takes from the entry d *)
ListsOf(d) ==
    [tracks |-> IF d.hasT THEN d.tracks ELSE <<>>,
     previous |-> IF d.hasP THEN d.previous ELSE <<>>]

(* the step is one of a call of the guild between its load and its return, *)
(* or the delete of utils.destroy                                          *)
OwnStep ==
    \E p \in Procs :
        \/ proc[p].pc \in {"loaded", "saving"}
        \/ proc[p].pc = "idle" /\ proc'[p].op = "destroy"

(* C26: with one caller awaiting each call, every call reads the entry as *)
(* the call before left it and works on the lists of that entry; when it  *)
(* has returned, the entry is the document it saved, or the entry it read *)
(* when it saved nothing; and no step outside the calls of the guild,     *)
(* those of another guild's Queue included, changes the entry.            *)
C26_SerialCallsLoseNoUpdate ==
    /\ [](\A p \in Procs :
            /\ (InFlight(p) \/ proc[p].pc = "done") /\ proc[p].left.given =>
                  proc[p].data = proc[p].left.doc
            /\ (/\ proc[p].pc = "done"
                /\ proc[p].op \notin {"destroy", "sync"}
                /\ proc[p].result # ResThrew) =>
                  /\ proc[p].loadedT = ListsOf(proc[p].data).tracks
                  /\ proc[p].loadedP = ListsOf(proc[p].data).previous
                  /\ proc[p].saved =>
                        store = Doc(current, proc[p].wrote.previous,
                                    proc[p].wrote.tracks)
                  /\ ~proc[p].saved => store = proc[p].data)
    /\ [][store' # store => OwnStep]_vars

(* C26 witness: the second call has added to the list the first call      *)
(* saved, after the other guild's entry was deleted                       *)
C26_SecondCallBuiltOnFirstReached ==
    \E p \in Procs :
        /\ proc[p].pc = "done"
        /\ proc[p].left.given
        /\ proc[p].left.doc.exists
        /\ Len(proc[p].left.doc.tracks) = 1
        /\ proc[p].saved
        /\ Len(store.tracks) = 2
        /\ store.tracks[2] = proc[p].left.doc.tracks[1]
        /\ ~others.exists

----------------------------------------------------------------------------
(* utils.destroy beside calls in flight *)

(* C27: when utils.destroy has returned and no call was made after it,    *)
(* the store holds no entry of the guild, whatever the calls made before  *)
(* it go on to do.                                                        *)
C27_DestroyedStaysAbsent ==
    \A p \in Procs :
        (Returned(p, "destroy") /\ proc[p].nth = calls) => ~store.exists

====
